---- MODULE Spec2Model ----
(***************************************************************************)
(* Foundgarten, Letter Match: the per-profile statistics table (Dexie /    *)
(* IndexedDB), the utilities that read and write it, and the Zustand round *)
(* store and profile store that call them.                                 *)
(*                                                                         *)
(* Every async function is a call record in `calls`.  A call suspends at   *)
(* each `await` of a storage operation; one step of the model is "the      *)
(* pending storage operation takes effect and the code after the await     *)
(* runs up to the next await".  Any pending storage operation may reject   *)
(* instead, and the rejection propagates (no function here catches it).    *)
(*                                                                         *)
(* Row fields gameId, itemId (derived from letter and caseType) and        *)
(* lastAttempt (a wall-clock stamp) are not carried.                       *)
(***************************************************************************)
EXTENDS Integers, Sequences, FiniteSets, Bags, TLC

VARIABLES
    stats,            \* db.letterMatchStatistics: a set of rows
    nextId,           \* the table's ++id generator
    dbProfiles,       \* db.profiles: the set of profile ids stored
    nextProfileId,    \* db.profiles' ++id generator
    calls,            \* the async calls in flight: a bag of call records
    begun,            \* how many store actions and calls have begun
    currentRound,     \* useLetterMatchStore state
    sessionLetters,
    currentIndex,
    currentScore,
    roundComplete,
    config,
    activeProfileId,  \* useProfileStore state (0 is null)
    profiles

vars == <<stats, nextId, dbProfiles, nextProfileId, calls, begun, currentRound,
          sessionLetters, currentIndex, currentScore, roundComplete, config,
          activeProfileId, profiles>>

roundVars == <<currentRound, sessionLetters, currentIndex, currentScore,
               roundComplete>>
profileVars == <<activeProfileId, profiles, dbProfiles, nextProfileId>>
dbVars == <<stats, nextId>>

-----------------------------------------------------------------------------
(* Bounds *)

\* letters of the alphabet the model keeps (the program has 26)
NumLetters == 2
\* profiles that can ever exist
NumProfiles == 2
\* async calls begun in one behaviour of SpecDb
MaxDbCalls == 3
\* store actions and calls begun in one behaviour of Spec
MaxCalls == 3
\* store actions and calls begun in one behaviour of SpecSeq
MaxSeqCalls == 4
\* utility calls begun in one behaviour of SpecDbSeq
MaxDbSeqCalls == 3
\* store recordAnswer calls begun in one behaviour of SpecPlay
MaxPlayCalls == 3
\* calls of the profile store in SpecProfiles
MaxProfileCalls == 4
\* attempts on a record handed to calculateWeight in SpecWeight
MaxAttempts == 4
\* items, weight and count handed to weightedRandomSelection in SpecSel
MaxItems == 3
MaxWeight == 2
MaxCount == 4

-----------------------------------------------------------------------------
(* Letters *)

UPPER == <<"A", "B", "C", "D", "E", "F", "G", "H", "I", "J", "K", "L", "M",
           "N", "O", "P", "Q", "R", "S", "T", "U", "V", "W", "X", "Y", "Z">>
LOWER == <<"a", "b", "c", "d", "e", "f", "g", "h", "i", "j", "k", "l", "m",
           "n", "o", "p", "q", "r", "s", "t", "u", "v", "w", "x", "y", "z">>

ALPHABET == SubSeq(UPPER, 1, NumLetters)

CaseTypes == <<"uppercase", "lowercase">>

toUpperCase(ch) ==
    IF \E i \in 1..Len(LOWER) : LOWER[i] = ch
    THEN UPPER[CHOOSE i \in 1..Len(LOWER) : LOWER[i] = ch]
    ELSE ch

toLowerCase(ch) ==
    IF \E i \in 1..Len(UPPER) : UPPER[i] = ch
    THEN LOWER[CHOOSE i \in 1..Len(UPPER) : UPPER[i] = ch]
    ELSE ch

\* caseType === 'uppercase' ? char : char.toLowerCase()
MakeLetter(char, caseType) ==
    [character |-> IF caseType = "uppercase" THEN char ELSE toLowerCase(char),
     caseType  |-> caseType]

\* the Letter objects the round generators can produce
Letters == {MakeLetter(ALPHABET[i], CaseTypes[j]) :
                i \in 1..NumLetters, j \in 1..2}

Profiles == 1..NumProfiles

-----------------------------------------------------------------------------
(* The statistics table *)

NoId == 0

ZeroRate == [num |-> 0, den |-> 1]

\* the zeroed record both recordAnswer and initializeLetterStatistics build
NewStat(profileId, letter, caseType) ==
    [id |-> NoId, profileId |-> profileId, letter |-> letter,
     caseType |-> caseType, totalAttempts |-> 0, correctCount |-> 0,
     incorrectCount |-> 0, successRate |-> ZeroRate]

\* a faulty variant: the query is not narrowed to the profile
WhereAnyProfile(tbl, profileId) == tbl

WhereProfile(tbl, profileId) == {r \in tbl : r.profileId = profileId}

WhereKey(tbl, profileId, letter, caseType) ==
    {r \in tbl : r.profileId = profileId /\ r.letter = letter
                 /\ r.caseType = caseType}

\* .first(): the index is not unique; equal keys come in primary-key order
First(rows) == CHOOSE r \in rows : \A q \in rows : r.id <= q.id

\* a faulty variant: put behaves as add, the row is stored under a fresh id
PutTableAdd(tbl, nid, row) == tbl \cup {[row EXCEPT !.id = nid]}

\* table.put(row): insert under a fresh id when the row has none, else
\* replace (or re-create) the row of that id
PutTable(tbl, nid, row) ==
    IF row.id = NoId
    THEN tbl \cup {[row EXCEPT !.id = nid]}
    ELSE {r \in tbl : r.id # row.id} \cup {row}

PutNextId(nid, row) == IF row.id = NoId THEN nid + 1 ELSE nid

\* a faulty variant: a wrong answer is counted as an attempt only
UpdatedStatMiscount(found, profileId, letter, correct) ==
    LET upperLetter == toUpperCase(letter.character)
        stat == IF found = {} THEN NewStat(profileId, upperLetter, letter.caseType)
                ELSE First(found)
    IN  [stat EXCEPT !.totalAttempts = stat.totalAttempts + 1,
                     !.correctCount = IF correct THEN stat.correctCount + 1
                                      ELSE stat.correctCount]

\* a faulty variant: the success rate is left as it was read
UpdatedStatStaleRate(found, profileId, letter, correct) ==
    LET upperLetter == toUpperCase(letter.character)
        stat == IF found = {} THEN NewStat(profileId, upperLetter, letter.caseType)
                ELSE First(found)
    IN  [stat EXCEPT !.totalAttempts = stat.totalAttempts + 1,
                     !.correctCount = IF correct THEN stat.correctCount + 1
                                      ELSE stat.correctCount,
                     !.incorrectCount = IF correct THEN stat.incorrectCount
                                        ELSE stat.incorrectCount + 1]

\* recordAnswer, after the read: fetch-or-create, then update the counts
UpdatedStat(found, profileId, letter, correct) ==
    LET upperLetter == toUpperCase(letter.character)
        stat == IF found = {} THEN NewStat(profileId, upperLetter, letter.caseType)
                ELSE First(found)
        total == stat.totalAttempts + 1
        right == IF correct THEN stat.correctCount + 1 ELSE stat.correctCount
        wrong == IF correct THEN stat.incorrectCount ELSE stat.incorrectCount + 1
    IN  [stat EXCEPT !.totalAttempts = total, !.correctCount = right,
                     !.incorrectCount = wrong,
                     !.successRate = [num |-> right, den |-> total]]

\* a counter summed over rows
RECURSIVE SumField(_, _)
SumField(rows, field) ==
    IF rows = {} THEN 0
    ELSE LET r == CHOOSE q \in rows : TRUE
         IN  r[field] + SumField(rows \ {r}, field)

\* the rows stored for the item a Letter names
RowsOf(tbl, profileId, letter) ==
    WhereKey(tbl, profileId, toUpperCase(letter.character), letter.caseType)

\* the attempts stored for an item
TotalAttempts(tbl, profileId, letter) ==
    SumField(RowsOf(tbl, profileId, letter), "totalAttempts")

\* a faulty variant: only the uppercase rows are built
InitialRowsUpperOnly(profileId, nid) ==
    {[NewStat(profileId, ALPHABET[i], "uppercase") EXCEPT !.id = nid + 2 * (i - 1)] :
        i \in 1..NumLetters}

\* the rows initializeLetterStatistics hands to bulkAdd, with the ids bulkAdd
\* gives them: for each letter, uppercase then lowercase
InitialRows(profileId, nid) ==
    {[NewStat(profileId, ALPHABET[i], CaseTypes[j])
        EXCEPT !.id = nid + 2 * (i - 1) + (j - 1)] :
        i \in 1..NumLetters, j \in 1..2}

-----------------------------------------------------------------------------
(* Calls *)

InFlight == BagToSet(calls)

Begin(call) ==
    /\ calls' = calls (+) SetToBag({call})
    /\ begun' = begun + 1

\* call c moves on as call d
Becomes(c, d) ==
    /\ calls' = (calls (-) SetToBag({c})) (+) SetToBag({d})
    /\ UNCHANGED begun

Goto(c, pc) == Becomes(c, [c EXCEPT !.pc = pc])

Settled(c) == c.pc \in {"resolved", "rejected"}

\* the caller observes the settled promise
Settle(c) ==
    /\ Settled(c)
    /\ calls' = calls (-) SetToBag({c})
    /\ UNCHANGED <<begun, dbVars, roundVars, config, profileVars>>

\* a faulty variant: a put that reports failure has written its row
RejectAfterWrite(c) ==
    /\ ~Settled(c)
    /\ Goto(c, "rejected")
    /\ IF c.op = "storeRecordAnswer" /\ c.pc = "put"
       THEN /\ stats' = PutTable(stats, nextId, c.stat)
            /\ nextId' = PutNextId(nextId, c.stat)
       ELSE UNCHANGED dbVars
    /\ UNCHANGED <<roundVars, config, profileVars>>

\* a pending storage operation rejects; nothing was written, and the error
\* propagates out of the call
Reject(c) ==
    /\ ~Settled(c)
    /\ Goto(c, "rejected")
    /\ UNCHANGED <<dbVars, roundVars, config, profileVars>>

-----------------------------------------------------------------------------
(* utils: recordAnswer(letter, correct, profileId) *)

CallRecordAnswer(letter, correct, profileId) ==
    /\ Begin([op |-> "recordAnswer", pc |-> "first", profileId |-> profileId,
              letter |-> letter, correct |-> correct, stat |-> NewStat(0, "", "")])
    /\ UNCHANGED <<dbVars, roundVars, config, profileVars>>

\* where('[profileId+letter+caseType]').equals(...).first() resolves
RecordAnswerFirst(c) ==
    /\ c.op = "recordAnswer" /\ c.pc = "first"
    /\ LET found == WhereKey(stats, c.profileId, toUpperCase(c.letter.character),
                             c.letter.caseType)
       IN  Becomes(c, [c EXCEPT !.pc = "put",
                  !.stat = UpdatedStat(found, c.profileId, c.letter, c.correct)])
    /\ UNCHANGED <<dbVars, roundVars, config, profileVars>>

\* put(stat) resolves
RecordAnswerPut(c) ==
    /\ c.op = "recordAnswer" /\ c.pc = "put"
    /\ stats' = PutTable(stats, nextId, c.stat)
    /\ nextId' = PutNextId(nextId, c.stat)
    /\ Goto(c, "resolved")
    /\ UNCHANGED <<roundVars, config, profileVars>>

-----------------------------------------------------------------------------
(* utils: initializeLetterStatistics(profileId), resetAllStatistics *)

CallInitialize(profileId) ==
    /\ Begin([op |-> "initialize", pc |-> "count", profileId |-> profileId,
              existingStats |-> 0])
    /\ UNCHANGED <<dbVars, roundVars, config, profileVars>>

\* a faulty variant: the count is ignored and the rows are always added
InitializeCountAlways(c) ==
    /\ c.op \in {"initialize", "reset"} /\ c.pc = "count"
    /\ LET n == Cardinality(WhereProfile(stats, c.profileId))
       IN  Becomes(c, [c EXCEPT !.existingStats = n, !.pc = "bulkAdd"])
    /\ UNCHANGED <<dbVars, roundVars, config, profileVars>>

\* where('profileId').equals(profileId).count() resolves
InitializeCount(c) ==
    /\ c.op \in {"initialize", "reset"} /\ c.pc = "count"
    /\ LET n == Cardinality(WhereProfile(stats, c.profileId))
       IN  Becomes(c, [c EXCEPT !.existingStats = n,
                               !.pc = IF n > 0 THEN "resolved" ELSE "bulkAdd"])
    /\ UNCHANGED <<dbVars, roundVars, config, profileVars>>

\* bulkAdd(stats) resolves
InitializeBulkAdd(c) ==
    /\ c.op \in {"initialize", "reset"} /\ c.pc = "bulkAdd"
    /\ stats' = stats \cup InitialRows(c.profileId, nextId)
    /\ nextId' = nextId + 2 * NumLetters
    /\ Goto(c, "resolved")
    /\ UNCHANGED <<roundVars, config, profileVars>>

CallReset(profileId) ==
    /\ Begin([op |-> "reset", pc |-> "delete", profileId |-> profileId,
              existingStats |-> 0])
    /\ UNCHANGED <<dbVars, roundVars, config, profileVars>>

\* where('profileId').equals(profileId).delete() resolves; initialize is called
ResetDelete(c) ==
    /\ c.op = "reset" /\ c.pc = "delete"
    /\ stats' = stats \ WhereProfile(stats, c.profileId)
    /\ Goto(c, "count")
    /\ UNCHANGED <<nextId, roundVars, config, profileVars>>

-----------------------------------------------------------------------------
(* useProfileStore: createProfile, setActiveProfile, deleteProfile *)

Remaining(profs, id) == SelectSeq(profs, LAMBDA x : x # id)

Contains(profs, id) == \E i \in 1..Len(profs) : profs[i] = id

\* db.profiles.toArray(): the rows in the order of their keys
RECURSIVE Ascending(_)
Ascending(ids) ==
    IF ids = {} THEN <<>>
    ELSE LET least == CHOOSE i \in ids : \A j \in ids : i <= j
         IN  <<least>> \o Ascending(ids \ {least})

CallLoadProfiles ==
    /\ Begin([op |-> "loadProfiles", pc |-> "toArray"])
    /\ UNCHANGED <<dbVars, roundVars, config, profileVars>>

\* db.profiles.toArray() resolves: the list is replaced and, with no active
\* profile, the first one becomes active
LoadProfilesToArray(c) ==
    /\ c.op = "loadProfiles" /\ c.pc = "toArray"
    /\ profiles' = Ascending(dbProfiles)
    /\ activeProfileId' = IF activeProfileId = 0 /\ dbProfiles # {}
                          THEN Ascending(dbProfiles)[1]
                          ELSE activeProfileId
    /\ Goto(c, "resolved")
    /\ UNCHANGED <<dbVars, roundVars, config, dbProfiles, nextProfileId>>

CallCreateProfile ==
    /\ nextProfileId <= NumProfiles
    /\ Begin([op |-> "createProfile", pc |-> "add"])
    /\ UNCHANGED <<dbVars, roundVars, config, profileVars>>

\* db.profiles.add resolves with the new id; the profile joins the list and,
\* with no active profile, setActiveProfile(id) runs up to its appSettings.put
CreateProfileAdd(c) ==
    /\ c.op = "createProfile" /\ c.pc = "add"
    /\ dbProfiles' = dbProfiles \cup {nextProfileId}
    /\ nextProfileId' = nextProfileId + 1
    /\ profiles' = Append(profiles, nextProfileId)
    /\ IF activeProfileId = 0
       THEN activeProfileId' = nextProfileId /\ Goto(c, "putSetting")
       ELSE UNCHANGED activeProfileId /\ Goto(c, "resolved")
    /\ UNCHANGED <<dbVars, roundVars, config>>

CallSetActiveProfile(profileId) ==
    /\ IF Contains(profiles, profileId)
       THEN /\ activeProfileId' = profileId
            /\ Begin([op |-> "setActiveProfile", pc |-> "putSetting"])
       ELSE /\ UNCHANGED activeProfileId
            /\ Begin([op |-> "setActiveProfile", pc |-> "resolved"])
    /\ UNCHANGED <<dbVars, roundVars, config, profiles, dbProfiles, nextProfileId>>

\* the call returns; a deleteProfile call notes how many calls had begun
\* by then (a history value, read by no action)
Return(c) ==
    Becomes(c, IF c.op = "deleteProfile"
               THEN [c EXCEPT !.pc = "resolved", !.begunAtEnd = begun]
               ELSE [c EXCEPT !.pc = "resolved"])

\* db.appSettings.put({key: 'activeProfileId', ...}) resolves
PutSetting(c) ==
    /\ c.pc = "putSetting"
    /\ Return(c)
    /\ UNCHANGED <<dbVars, roundVars, config, profileVars>>

CallDeleteProfile(id) ==
    /\ Begin([op |-> "deleteProfile", pc |-> "deleteProfile", id |-> id,
              activeProfileId |-> activeProfileId, profiles |-> profiles,
              begunAtEnd |-> 0])
    /\ UNCHANGED <<dbVars, roundVars, config, profileVars>>

\* db.profiles.delete(id) resolves
DeleteProfileRow(c) ==
    /\ c.op = "deleteProfile" /\ c.pc = "deleteProfile"
    /\ dbProfiles' = dbProfiles \ {c.id}
    /\ Goto(c, "deleteStats")
    /\ UNCHANGED <<dbVars, roundVars, config, activeProfileId, profiles,
                   nextProfileId>>

\* db.letterMatchStatistics.where('profileId').equals(id).delete() resolves
DeleteProfileStats(c) ==
    /\ c.op = "deleteProfile" /\ c.pc = "deleteStats"
    /\ stats' = stats \ WhereProfile(stats, c.id)
    /\ Goto(c, "deleteOrientation")
    /\ UNCHANGED <<nextId, roundVars, config, profileVars>>

\* the orientation table's delete resolves; the list is replaced by the
\* captured one without id, and a deleted active profile is replaced
DeleteProfileFinish(c) ==
    /\ c.op = "deleteProfile" /\ c.pc = "deleteOrientation"
    /\ LET remainingProfiles == Remaining(c.profiles, c.id)
       IN  /\ profiles' = remainingProfiles
           /\ IF c.activeProfileId = c.id
              THEN IF Len(remainingProfiles) > 0
                   THEN /\ activeProfileId' = remainingProfiles[1]
                        /\ Goto(c, "putSetting")
                   ELSE /\ activeProfileId' = 0
                        /\ Return(c)
              ELSE /\ UNCHANGED activeProfileId
                   /\ Return(c)
    /\ UNCHANGED <<dbVars, roundVars, config, dbProfiles, nextProfileId>>

-----------------------------------------------------------------------------
(* numbers: the weights are fractions in lowest terms *)

RECURSIVE GCD(_, _)
GCD(a, b) == IF b = 0 THEN a ELSE GCD(b, a % b)

Frac(n, d) == [num |-> n \div GCD(n, d), den |-> d \div GCD(n, d)]

Plus(a, b) == Frac(a.num * b.den + b.num * a.den, a.den * b.den)

Times(a, b) == Frac(a.num * b.num, a.den * b.den)

Leq(a, b) == a.num * b.den <= b.num * a.den

\* Math.max
Greatest(a, b) == IF Leq(a, b) THEN b ELSE a

\* Math.pow(base, 0.7) and Math.pow(base, 1.5) in thousandths, rounded to
\* the nearest, for the bases a weight can take: (1 - c/t) and 1.2 * (1 - c/t)
\* for t <= 6, and the floor 0.1
PowTable ==
    <<[base |-> Frac(0, 1), pow07 |-> 0, pow15 |-> 0],
      [base |-> Frac(1, 10), pow07 |-> 200, pow15 |-> 32],
      [base |-> Frac(1, 6), pow07 |-> 285, pow15 |-> 68],
      [base |-> Frac(1, 5), pow07 |-> 324, pow15 |-> 89],
      [base |-> Frac(6, 25), pow07 |-> 368, pow15 |-> 118],
      [base |-> Frac(1, 4), pow07 |-> 379, pow15 |-> 125],
      [base |-> Frac(3, 10), pow07 |-> 431, pow15 |-> 164],
      [base |-> Frac(1, 3), pow07 |-> 463, pow15 |-> 192],
      [base |-> Frac(2, 5), pow07 |-> 527, pow15 |-> 253],
      [base |-> Frac(12, 25), pow07 |-> 598, pow15 |-> 333],
      [base |-> Frac(1, 2), pow07 |-> 616, pow15 |-> 354],
      [base |-> Frac(3, 5), pow07 |-> 699, pow15 |-> 465],
      [base |-> Frac(2, 3), pow07 |-> 753, pow15 |-> 544],
      [base |-> Frac(18, 25), pow07 |-> 795, pow15 |-> 611],
      [base |-> Frac(3, 4), pow07 |-> 818, pow15 |-> 650],
      [base |-> Frac(4, 5), pow07 |-> 855, pow15 |-> 716],
      [base |-> Frac(5, 6), pow07 |-> 880, pow15 |-> 761],
      [base |-> Frac(9, 10), pow07 |-> 929, pow15 |-> 854],
      [base |-> Frac(24, 25), pow07 |-> 972, pow15 |-> 941],
      [base |-> Frac(1, 1), pow07 |-> 1000, pow15 |-> 1000],
      [base |-> Frac(6, 5), pow07 |-> 1136, pow15 |-> 1315]>>

PowEntry(base) ==
    PowTable[CHOOSE k \in 1..Len(PowTable) : PowTable[k].base = base]

\* Math.pow(base, 0.7)
pow07(base) == Frac(PowEntry(base).pow07, 1000)

\* Math.pow(base, 1.5)
pow15(base) == Frac(PowEntry(base).pow15, 1000)

-----------------------------------------------------------------------------
(* weighted-selection: calculateWeight, adjustWeightsForDifficulty *)

\* a faulty variant: the success rate itself is taken as the weight
errorWeightOfSuccess(stat) == Frac(stat.successRate.num, stat.successRate.den)

\* 1 - stat.successRate
errorWeight(stat) ==
    Frac(stat.successRate.den - stat.successRate.num, stat.successRate.den)

\* 1.2 when lastAttempt is more than 7 days before Date.now() (old), else 1.0
recencyBoost(old) == IF old THEN Frac(6, 5) ELSE Frac(1, 1)

\* a faulty variant: the unseen item is not told apart
calculateWeightOfItemSeen(stat, old) ==
    Greatest(Times(errorWeight(stat), recencyBoost(old)), Frac(1, 10))

\* calculateWeight(stat) of the library
calculateWeightOfItem(stat, old) ==
    IF stat.totalAttempts = 0 THEN Frac(1, 1)
    ELSE Greatest(Times(errorWeight(stat), recencyBoost(old)), Frac(1, 10))

adjustWeightsForDifficulty(weights, difficulty) ==
    IF difficulty = "easy"
    THEN [i \in 1..Len(weights) |->
             [weights[i] EXCEPT !.weight =
                 Plus(Frac(3, 10), Times(weights[i].weight, Frac(7, 10)))]]
    ELSE IF difficulty = "hard"
    THEN [i \in 1..Len(weights) |->
             [weights[i] EXCEPT !.weight = pow15(weights[i].weight)]]
    ELSE weights

\* generateRoundItems up to the selection: the weights handed to
\* weightedRandomSelection; statistics[i] is [stat, old]
roundItemWeights(statistics, difficulty) ==
    adjustWeightsForDifficulty(
        [i \in 1..Len(statistics) |->
            [itemId |-> ToString(i),
             weight |-> calculateWeightOfItem(statistics[i].stat,
                                              statistics[i].old)]],
        difficulty)

-----------------------------------------------------------------------------
(* weighted-selection: normalizeWeights, weightedRandomSelection *)

\* In the sampler a weight is a fraction [num, den] and the weights of one
\* array share their denominator (normalizing keeps it so).
Whole(n) == [num |-> n, den |-> 1]

RECURSIVE SumWeights(_)
SumWeights(weights) ==
    IF Len(weights) = 0 THEN 0
    ELSE Head(weights).weight.num + SumWeights(Tail(weights))

\* a faulty variant: a total of 0 is divided by like any other
normalizeWeightsUnguarded(weights) ==
    [i \in 1..Len(weights) |->
        [weights[i] EXCEPT !.weight =
            [num |-> weights[i].weight.num, den |-> SumWeights(weights)]]]

normalizeWeights(weights) ==
    LET totalWeight == SumWeights(weights)
    IN  IF totalWeight = 0
        THEN [i \in 1..Len(weights) |->
                 [weights[i] EXCEPT !.weight = [num |-> 1, den |-> Len(weights)]]]
        ELSE [i \in 1..Len(weights) |->
                 [weights[i] EXCEPT !.weight =
                     [num |-> weights[i].weight.num, den |-> totalWeight]]]

\* the numerator of cumulativeWeight once available[1..j] have been added
RECURSIVE CumulativeWeight(_, _)
CumulativeWeight(available, j) ==
    IF j = 0 THEN 0
    ELSE available[j].weight.num + CumulativeWeight(available, j - 1)

\* the first index whose test succeeds, and the first index of all
\* (selectedIndex = 0) when none does
FirstReached(reached) ==
    IF reached = {} THEN 1
    ELSE CHOOSE j \in reached : \A i \in reached : j <= i

\* a faulty variant: random is compared with the item's own weight
selectedIndexOwnWeight(available, random) ==
    FirstReached({j \in 1..Len(available) :
                     random.num * available[j].weight.den
                         <= available[j].weight.num * random.den})

\* the inner loop of weightedRandomSelection for one value of Math.random(),
\* a fraction in [0, 1): the first index whose cumulative weight reaches
\* random
selectedIndex(available, random) ==
    FirstReached({j \in 1..Len(available) :
                     random.num * available[j].weight.den
                         <= CumulativeWeight(available, j) * random.den})

\* the indexes one draw can select: index j when random falls in its share
\* of the cumulative weight, the first index when random is 0 and when
\* rounding leaves random above the last cumulative weight
Selectable(available) ==
    {j \in 1..Len(available) : j = 1 \/ available[j].weight.num > 0}

\* a faulty variant: the selected item stays in the pool
SplicedNothing(available, j) == normalizeWeights(available)

\* available.splice(selectedIndex, 1) and the re-normalization
Spliced(available, j) ==
    normalizeWeights([i \in 1..(Len(available) - 1) |->
                         IF i < j THEN available[i] ELSE available[i + 1]])

\* the loop: every array of ids the draws can produce
RECURSIVE Selections(_, _, _)
Selections(available, count, allowDuplicates) ==
    IF count <= 0 \/ Len(available) = 0 THEN {<<>>}
    ELSE UNION {{<<available[j].itemId>> \o rest :
                    rest \in Selections(IF allowDuplicates THEN available
                                        ELSE Spliced(available, j),
                                        count - 1, allowDuplicates)} :
                   j \in Selectable(available)}

weightedRandomSelection(weights, count, allowDuplicates) ==
    IF Len(weights) = 0 THEN {<<>>}
    ELSE Selections(normalizeWeights(weights), count, allowDuplicates)

\* weightedRandomSelection(weights, count, allowDuplicates) called on its own
CallWeightedRandomSelection(weights, count, allowDuplicates) ==
    [op |-> "weightedRandomSelection", pc |-> "called", weights |-> weights,
     count |-> count, allowDuplicates |-> allowDuplicates, selected |-> <<>>]

\* the call returns one of the arrays the draws can produce
WeightedRandomSelectionReturn(c) ==
    /\ c.op = "weightedRandomSelection" /\ c.pc = "called"
    /\ \E selected \in weightedRandomSelection(c.weights, c.count,
                                                c.allowDuplicates) :
          Becomes(c, [c EXCEPT !.pc = "resolved", !.selected = selected])
    /\ UNCHANGED <<dbVars, roundVars, config, profileVars>>

-----------------------------------------------------------------------------
(* utils: generateFirstRound, generateAdaptiveRound *)

Orderings(n) == {p \in [1..n -> 1..n] : \A i, j \in 1..n : p[i] = p[j] => i = j}

\* shuffleArray: Fisher-Yates reaches every order
shuffleArray(array) ==
    {[i \in 1..Len(array) |-> array[p[i]]] : p \in Orderings(Len(array))}

\* a faulty variant: the filter is ignored
casesToConsiderBoth(cfg) == {"uppercase", "lowercase"}

casesToConsider(cfg) ==
    IF cfg.letterCase = "both" THEN {"uppercase", "lowercase"}
    ELSE IF cfg.letterCase = "uppercase" THEN {"uppercase"}
    ELSE {"lowercase"}

\* a faulty variant: the round is cut to config.roundSize
generateFirstRoundSized(cfg) ==
    LET n == IF cfg.roundSize < NumLetters THEN cfg.roundSize ELSE NumLetters
    IN  UNION {shuffleArray([i \in 1..n |-> MakeLetter(ALPHABET[i], f[i])]) :
                  f \in [1..n -> casesToConsider(cfg)]}

\* one entry per letter of ALPHABET, its case drawn as letterCase allows
generateFirstRound(cfg) ==
    UNION {shuffleArray([i \in 1..NumLetters |-> MakeLetter(ALPHABET[i], f[i])]) :
              f \in [1..NumLetters -> casesToConsider(cfg)]}

Min(a, b) == IF a < b THEN a ELSE b

\* the game's calculateWeight(stat, difficulty); found is what
\* allStats.find returned ({} for undefined), old says whether lastAttempt
\* is more than 7 days before Date.now()
calculateWeight(found, difficulty, old) ==
    IF found = {} THEN Frac(1, 1)
    ELSE LET stat == First(found)
         IN  IF stat.totalAttempts = 0 THEN Frac(1, 1)
             ELSE LET weight == Times(errorWeight(stat), recencyBoost(old))
                      finalWeight ==
                          IF difficulty = "easy"
                          THEN Plus(Frac(1, 2), Times(weight, Frac(1, 2)))
                          ELSE IF difficulty = "hard" THEN pow07(weight)
                          ELSE weight
                  IN  Greatest(Frac(1, 10), finalWeight)

\* the candidates in the order the loops push them; old holds the records
\* whose lastAttempt is more than 7 days back
weightedLetters(cfg, allStats, old) ==
    LET cases == SelectSeq(CaseTypes, LAMBDA ct : ct \in casesToConsider(cfg))
        n == Len(cases)
    IN  [k \in 1..(NumLetters * n) |->
            LET char == ALPHABET[(k - 1) \div n + 1]
                caseType == cases[((k - 1) % n) + 1]
                found == {r \in allStats : r.letter = char /\ r.caseType = caseType}
            IN  [character |-> MakeLetter(char, caseType).character,
                 caseType |-> caseType,
                 weight |-> calculateWeight(found, cfg.difficulty,
                                            found # {} /\ First(found) \in old)]]

RECURSIVE SharedDen(_)
SharedDen(candidates) ==
    IF Len(candidates) = 0 THEN 1
    ELSE LET d == Head(candidates).weight.den
             rest == SharedDen(Tail(candidates))
         IN  (d * rest) \div GCD(d, rest)

\* itemId `${character}-${caseType}-${idx}` is the triple; split('-') gives
\* back its first two parts, and find returns the first candidate with them
selectedLetter(candidates, id) ==
    LET k == CHOOSE k \in 1..Len(candidates) :
                 /\ candidates[k].character = id[1]
                 /\ candidates[k].caseType = id[2]
                 /\ \A m \in 1..(k - 1) : ~(candidates[m].character = id[1]
                                            /\ candidates[m].caseType = id[2])
    IN  [character |-> candidates[k].character, caseType |-> candidates[k].caseType]

\* a faulty variant: every candidate is taken, whatever config.roundSize is
generateAdaptiveRoundUnsized(cfg, allStats) ==
    LET candidates == weightedLetters(cfg, allStats, {})
    IN  shuffleArray([k \in 1..Len(candidates) |->
                         [character |-> candidates[k].character,
                          caseType |-> candidates[k].caseType]])

\* the rounds generateAdaptiveRound can return for given candidates
roundsOf(candidates, roundSize) ==
    LET shared == SharedDen(candidates)
        weightedItems ==
            [k \in 1..Len(candidates) |->
                [itemId |-> <<candidates[k].character,
                              candidates[k].caseType, k - 1>>,
                 weight |-> [num |-> candidates[k].weight.num
                                         * (shared \div candidates[k].weight.den),
                             den |-> shared]]]
    IN  UNION {shuffleArray([i \in 1..Len(selectedIds) |->
                                selectedLetter(candidates, selectedIds[i])]) :
                  selectedIds \in weightedRandomSelection(weightedItems,
                                                          roundSize, FALSE)}

\* generateAdaptiveRound, after toArray() has resolved with allStats; each
\* attempted record may or may not be more than 7 days old
generateAdaptiveRound(cfg, allStats) ==
    UNION {roundsOf(weightedLetters(cfg, allStats, old), cfg.roundSize) :
              old \in SUBSET {r \in allStats : r.totalAttempts > 0}}

\* the weights computed on their own for two items: items[i] is [found, old],
\* found what allStats.find returned.  gameWeights are the game's,
\* itemWeights the library's for the items that have a record.
CallWeights(items, difficulty) ==
    [op |-> "weights", pc |-> "called", items |-> items,
     difficulty |-> difficulty, gameWeights |-> <<>>, itemWeights |-> <<>>]

\* the items that have a record, as generateRoundItems takes them
Recorded(items) ==
    LET present == SelectSeq(items, LAMBDA it : it.found # {})
    IN  [k \in 1..Len(present) |->
            [stat |-> First(present[k].found), old |-> present[k].old]]

WeightsReturn(c) ==
    /\ c.op = "weights" /\ c.pc = "called"
    /\ Becomes(c, [c EXCEPT
          !.pc = "resolved",
          !.gameWeights = [i \in 1..Len(c.items) |->
                              calculateWeight(c.items[i].found, c.difficulty,
                                              c.items[i].old)],
          !.itemWeights = roundItemWeights(Recorded(c.items), c.difficulty)])
    /\ UNCHANGED <<dbVars, roundVars, config, profileVars>>

\* generateAdaptiveRound(config, profileId) called on its own
CallGenerateAdaptiveRound(cfg, profileId) ==
    /\ Begin([op |-> "generateAdaptiveRound", pc |-> "toArray",
              profileId |-> profileId, config |-> cfg, allStats |-> {},
              letters |-> <<>>])
    /\ UNCHANGED <<dbVars, roundVars, config, profileVars>>

\* where('profileId').equals(profileId).toArray() resolves; the round is
\* returned
GenerateAdaptiveRoundToArray(c) ==
    /\ c.op = "generateAdaptiveRound" /\ c.pc = "toArray"
    /\ LET allStats == WhereProfile(stats, c.profileId)
       IN  \E letters \in generateAdaptiveRound(c.config, allStats) :
              Becomes(c, [c EXCEPT !.pc = "resolved", !.allStats = allStats,
                                   !.letters = letters])
    /\ UNCHANGED <<dbVars, roundVars, config, profileVars>>

-----------------------------------------------------------------------------
(* useLetterMatchStore *)

\* the round state as a caller reads it
RoundState ==
    [currentRound |-> currentRound, sessionLetters |-> sessionLetters,
     currentIndex |-> currentIndex, currentScore |-> currentScore,
     roundComplete |-> roundComplete]

SetRound(nextRound, letters) ==
    /\ currentRound' = nextRound
    /\ sessionLetters' = letters
    /\ currentIndex' = 0
    /\ currentScore' = 0
    /\ roundComplete' = FALSE

\* a faulty variant: the round number is bumped before the statistics are
\* awaited
CallStartNewRoundEager ==
    /\ Begin([op |-> "startNewRound",
              pc |-> IF activeProfileId = 0 THEN "resolved" ELSE "count",
              profileId |-> activeProfileId,
              nextRound |-> currentRound + 1, config |-> config,
              existingStats |-> 0, round0 |-> RoundState, allStats |-> {}])
    /\ currentRound' = IF activeProfileId = 0 THEN currentRound
                       ELSE currentRound + 1
    /\ UNCHANGED <<dbVars, sessionLetters, currentIndex, currentScore,
                   roundComplete, config, profileVars>>

CallStartNewRound ==
    /\ IF activeProfileId = 0
       THEN Begin([op |-> "startNewRound", pc |-> "resolved", profileId |-> 0,
                   nextRound |-> currentRound + 1, config |-> config,
                   existingStats |-> 0, round0 |-> RoundState,
                   allStats |-> {}])
       ELSE Begin([op |-> "startNewRound", pc |-> "count",
                   profileId |-> activeProfileId,
                   nextRound |-> currentRound + 1, config |-> config,
                   existingStats |-> 0, round0 |-> RoundState,
                   allStats |-> {}])
    /\ UNCHANGED <<dbVars, roundVars, config, profileVars>>

\* initializeLetterStatistics has returned: round 1 is generated and
\* installed at once, a later round awaits the statistics
StartNewRoundGenerate(c, d) ==
    IF c.nextRound = 1
    THEN /\ \E letters \in generateFirstRound(c.config) :
                SetRound(c.nextRound, letters)
         /\ Becomes(c, [d EXCEPT !.pc = "resolved"])
    ELSE /\ Becomes(c, [d EXCEPT !.pc = "toArray"])
         /\ UNCHANGED roundVars

\* initializeLetterStatistics: count() resolves
StartNewRoundCount(c) ==
    /\ c.op = "startNewRound" /\ c.pc = "count"
    /\ LET n == Cardinality(WhereProfile(stats, c.profileId))
       IN  IF n > 0
           THEN StartNewRoundGenerate(c, [c EXCEPT !.existingStats = n])
           ELSE /\ Becomes(c, [c EXCEPT !.existingStats = n, !.pc = "bulkAdd"])
                /\ UNCHANGED roundVars
    /\ UNCHANGED <<dbVars, config, profileVars>>

\* initializeLetterStatistics: bulkAdd(stats) resolves
StartNewRoundBulkAdd(c) ==
    /\ c.op = "startNewRound" /\ c.pc = "bulkAdd"
    /\ stats' = stats \cup InitialRows(c.profileId, nextId)
    /\ nextId' = nextId + 2 * NumLetters
    /\ StartNewRoundGenerate(c, c)
    /\ UNCHANGED <<config, profileVars>>

\* generateAdaptiveRound: where('profileId').equals(profileId).toArray()
\* resolves; the round is generated and installed
StartNewRoundToArray(c) ==
    /\ c.op = "startNewRound" /\ c.pc = "toArray"
    /\ LET allStats == WhereProfile(stats, c.profileId)
       IN  /\ \E letters \in generateAdaptiveRound(c.config, allStats) :
                  SetRound(c.nextRound, letters)
           /\ Becomes(c, [c EXCEPT !.pc = "resolved", !.allStats = allStats])
    /\ UNCHANGED <<dbVars, config, profileVars>>

NoLetter == [character |-> "", caseType |-> ""]

StoreCall(pc, profileId, letter, correct, retry, round0, attempts0) ==
    [op |-> "storeRecordAnswer", pc |-> pc, profileId |-> profileId,
     letter |-> letter, correct |-> correct, stat |-> NewStat(0, "", ""),
     currentIndex |-> currentIndex, currentScore |-> currentScore,
     length |-> Len(sessionLetters),
     \* kept for the properties: is this the caller's retry of a rejected
     \* call, and the round state and attempts that call started from
     retry |-> retry, round0 |-> round0, attempts0 |-> attempts0]

\* a faulty variant: the answer is recorded without an active profile
StoreRecordAnswerBeginUnchecked(correct, retry, round0, attempts0) ==
    IF currentIndex >= Len(sessionLetters)
    THEN StoreCall("resolved", activeProfileId, NoLetter, correct,
                   retry, round0, attempts0)
    ELSE StoreCall("first", activeProfileId, sessionLetters[currentIndex + 1],
                   correct, retry, round0, attempts0)

\* recordAnswer(correct), up to the await of recordAnswerToDB
StoreRecordAnswerBegin(correct, retry, round0, attempts0) ==
    IF currentIndex >= Len(sessionLetters) \/ activeProfileId = 0
    THEN StoreCall("resolved", activeProfileId, NoLetter, correct,
                   retry, round0, attempts0)
    ELSE StoreCall("first", activeProfileId, sessionLetters[currentIndex + 1],
                   correct, retry, round0, attempts0)

CallStoreRecordAnswer(correct) ==
    /\ Begin(StoreRecordAnswerBegin(correct, FALSE, RoundState,
             IF currentIndex < Len(sessionLetters)
             THEN TotalAttempts(stats, activeProfileId,
                                sessionLetters[currentIndex + 1])
             ELSE 0))
    /\ UNCHANGED <<dbVars, roundVars, config, profileVars>>

\* the caller sees the rejection and submits the same answer again
Retry(c) ==
    /\ c.op = "storeRecordAnswer" /\ c.pc = "rejected"
    /\ Becomes(c, StoreRecordAnswerBegin(c.correct, TRUE, c.round0, c.attempts0))
    /\ UNCHANGED <<dbVars, roundVars, config, profileVars>>

\* a faulty variant: the index advances as soon as the read resolves
StoreRecordAnswerFirstEager(c) ==
    /\ c.op = "storeRecordAnswer" /\ c.pc = "first"
    /\ LET found == WhereKey(stats, c.profileId, toUpperCase(c.letter.character),
                             c.letter.caseType)
       IN  Becomes(c, [c EXCEPT !.pc = "put",
                  !.stat = UpdatedStat(found, c.profileId, c.letter, c.correct)])
    /\ currentIndex' = c.currentIndex + 1
    /\ UNCHANGED <<dbVars, currentRound, sessionLetters, currentScore,
                   roundComplete, config, profileVars>>

\* recordAnswerToDB: first() resolves
StoreRecordAnswerFirst(c) ==
    /\ c.op = "storeRecordAnswer" /\ c.pc = "first"
    /\ LET found == WhereKey(stats, c.profileId, toUpperCase(c.letter.character),
                             c.letter.caseType)
       IN  Becomes(c, [c EXCEPT !.pc = "put",
                  !.stat = UpdatedStat(found, c.profileId, c.letter, c.correct)])
    /\ UNCHANGED <<dbVars, roundVars, config, profileVars>>

\* a faulty variant: only a correct answer moves to the next letter
StoreRecordAnswerPutCorrectOnly(c) ==
    /\ c.op = "storeRecordAnswer" /\ c.pc = "put"
    /\ stats' = PutTable(stats, nextId, c.stat)
    /\ nextId' = PutNextId(nextId, c.stat)
    /\ currentScore' = IF c.correct THEN c.currentScore + 1 ELSE c.currentScore
    /\ currentIndex' = IF c.correct THEN c.currentIndex + 1 ELSE c.currentIndex
    /\ roundComplete' = IF c.correct /\ c.currentIndex = c.length - 1 THEN TRUE
                        ELSE roundComplete
    /\ Goto(c, "resolved")
    /\ UNCHANGED <<currentRound, sessionLetters, config, profileVars>>

\* recordAnswerToDB: put(stat) resolves; the score and index are set from
\* the values read when the call began
StoreRecordAnswerPut(c) ==
    /\ c.op = "storeRecordAnswer" /\ c.pc = "put"
    /\ stats' = PutTable(stats, nextId, c.stat)
    /\ nextId' = PutNextId(nextId, c.stat)
    /\ currentScore' = IF c.correct THEN c.currentScore + 1 ELSE c.currentScore
    /\ currentIndex' = c.currentIndex + 1
    /\ roundComplete' = IF c.currentIndex = c.length - 1 THEN TRUE
                        ELSE roundComplete
    /\ Goto(c, "resolved")
    /\ UNCHANGED <<currentRound, sessionLetters, config, profileVars>>

nextLetter ==
    /\ IF currentIndex < Len(sessionLetters) - 1
       THEN currentIndex' = currentIndex + 1 /\ UNCHANGED roundComplete
       ELSE roundComplete' = TRUE /\ UNCHANGED currentIndex
    /\ begun' = begun + 1
    /\ UNCHANGED <<dbVars, calls, currentRound, sessionLetters,
                   currentScore, config, profileVars>>

resetGame ==
    /\ SetRound(0, <<>>)
    /\ begun' = begun + 1
    /\ UNCHANGED <<dbVars, calls, config, profileVars>>

\* the values the settings panel can merge into config
ConfigUpdates ==
    [difficulty : {"easy", "auto", "hard"}, letterCase : {config.letterCase},
     roundSize : {config.roundSize}]
    \cup [difficulty : {config.difficulty},
          letterCase : {"both", "uppercase", "lowercase"},
          roundSize : {config.roundSize}]
    \cup [difficulty : {config.difficulty}, letterCase : {config.letterCase},
          roundSize : {1, 15}]

\* a faulty variant: the round in play is filtered by the new letterCase
updateConfigFiltering ==
    /\ \E newConfig \in ConfigUpdates :
          /\ config' = newConfig
          /\ sessionLetters' =
                SelectSeq(sessionLetters,
                          LAMBDA l : l.caseType \in casesToConsider(newConfig))
    /\ begun' = begun + 1
    /\ UNCHANGED <<dbVars, calls, currentRound, currentIndex, currentScore,
                   roundComplete, profileVars>>

updateConfig ==
    /\ \E newConfig \in ConfigUpdates : config' = newConfig
    /\ begun' = begun + 1
    /\ UNCHANGED <<dbVars, calls, roundVars, profileVars>>

-----------------------------------------------------------------------------
(* SettingsPanel: handleResetProgress *)

CallResetProgress ==
    /\ IF activeProfileId = 0
       THEN Begin([op |-> "resetProgress", pc |-> "resolved", profileId |-> 0,
                   existingStats |-> 0, recorded |-> 0])
       ELSE Begin([op |-> "resetProgress", pc |-> "delete",
                   profileId |-> activeProfileId, existingStats |-> 0,
                   \* kept for the properties: the attempts on record when
                   \* the reset began
                   recorded |-> SumField(WhereProfile(stats, activeProfileId),
                                         "totalAttempts")])
    /\ UNCHANGED <<dbVars, roundVars, config, profileVars>>

\* a faulty variant: the delete removes nothing
ResetProgressDeleteNothing(c) ==
    /\ c.op = "resetProgress" /\ c.pc = "delete"
    /\ Goto(c, "count")
    /\ UNCHANGED <<dbVars, roundVars, config, profileVars>>

\* resetAllStatistics: delete() resolves
ResetProgressDelete(c) ==
    /\ c.op = "resetProgress" /\ c.pc = "delete"
    /\ stats' = stats \ WhereProfile(stats, c.profileId)
    /\ Goto(c, "count")
    /\ UNCHANGED <<nextId, roundVars, config, profileVars>>

\* initializeLetterStatistics: count() resolves; with records present
\* resetAllStatistics returns and resetGame() runs
ResetProgressCount(c) ==
    /\ c.op = "resetProgress" /\ c.pc = "count"
    /\ LET n == Cardinality(WhereProfile(stats, c.profileId))
       IN  IF n > 0
           THEN /\ Becomes(c, [c EXCEPT !.existingStats = n, !.pc = "resolved"])
                /\ SetRound(0, <<>>)
           ELSE /\ Becomes(c, [c EXCEPT !.existingStats = n, !.pc = "bulkAdd"])
                /\ UNCHANGED roundVars
    /\ UNCHANGED <<dbVars, config, profileVars>>

\* a faulty variant: the statistics are reset and the round is kept
ResetProgressBulkAddKeepsRound(c) ==
    /\ c.op = "resetProgress" /\ c.pc = "bulkAdd"
    /\ stats' = stats \cup InitialRows(c.profileId, nextId)
    /\ nextId' = nextId + 2 * NumLetters
    /\ Goto(c, "resolved")
    /\ UNCHANGED <<roundVars, config, profileVars>>

\* initializeLetterStatistics: bulkAdd resolves; resetGame() runs
ResetProgressBulkAdd(c) ==
    /\ c.op = "resetProgress" /\ c.pc = "bulkAdd"
    /\ stats' = stats \cup InitialRows(c.profileId, nextId)
    /\ nextId' = nextId + 2 * NumLetters
    /\ SetRound(0, <<>>)
    /\ Goto(c, "resolved")
    /\ UNCHANGED <<config, profileVars>>

-----------------------------------------------------------------------------
(* Specifications *)

\* a fresh install
InitDb ==
    /\ stats = {}
    /\ nextId = 1
    /\ dbProfiles = {}
    /\ nextProfileId = 1
    /\ calls = EmptyBag
    /\ begun = 0
    /\ currentRound = 0
    /\ sessionLetters = <<>>
    /\ currentIndex = 0
    /\ currentScore = 0
    /\ roundComplete = FALSE
    /\ config = [difficulty |-> "auto", letterCase |-> "both", roundSize |-> 15]
    /\ activeProfileId = 0
    /\ profiles = <<>>

\* a fresh install, or a start with a profile an earlier session created
\* (the profile store persists activeProfileId and loads the profiles)
Init ==
    /\ stats = {}
    /\ nextId = 1
    /\ calls = EmptyBag
    /\ begun = 0
    /\ currentRound = 0
    /\ sessionLetters = <<>>
    /\ currentIndex = 0
    /\ currentScore = 0
    /\ roundComplete = FALSE
    /\ config = [difficulty |-> "auto", letterCase |-> "both", roundSize |-> 15]
    /\ \/ /\ activeProfileId = 0
          /\ profiles = <<>>
          /\ dbProfiles = {}
          /\ nextProfileId = 1
       \/ /\ activeProfileId = 1
          /\ profiles = <<1>>
          /\ dbProfiles = {1}
          /\ nextProfileId = 2

\* The utilities called directly, in any interleaving
DbCalls ==
    \E p \in Profiles :
        \/ \E l \in Letters, ok \in BOOLEAN : CallRecordAnswer(l, ok, p)
        \/ CallInitialize(p)
        \/ CallReset(p)
        \/ CallDeleteProfile(p)
        \/ \E n \in {1, 2} :
              CallGenerateAdaptiveRound([config EXCEPT !.roundSize = n], p)

DbCall == begun < MaxDbCalls /\ DbCalls

DbStep ==
    \E c \in InFlight :
        \/ RecordAnswerFirst(c)
        \/ RecordAnswerPut(c)
        \/ InitializeCount(c)
        \/ InitializeBulkAdd(c)
        \/ ResetDelete(c)
        \/ GenerateAdaptiveRoundToArray(c)
        \/ DeleteProfileRow(c)
        \/ DeleteProfileStats(c)
        \/ DeleteProfileFinish(c)
        \/ Reject(c)
        \/ Settle(c)

NextDb == DbCall \/ DbStep

SpecDb == InitDb /\ [][NextDb]_vars

\* The utilities called one after another: a call begins only when every
\* earlier call has returned
NextDbSeq ==
    \/ /\ begun < MaxDbSeqCalls
       /\ \A c \in InFlight : Settled(c)
       /\ DbCalls
    \/ DbStep

SpecDbSeq == InitDb /\ [][NextDbSeq]_vars

\* The stores and the settings panel, their calls overlapping freely
AppCall ==
    \/ CallCreateProfile
    \/ \E p \in Profiles : CallSetActiveProfile(p)
    \/ \E p \in Profiles : CallDeleteProfile(p)
    \/ CallStartNewRound
    \/ \E ok \in BOOLEAN : CallStoreRecordAnswer(ok)
    \/ CallResetProgress

AppSync ==
    \/ nextLetter
    \/ resetGame
    \/ updateConfig

AppStep ==
    \E c \in InFlight :
        \/ CreateProfileAdd(c)
        \/ PutSetting(c)
        \/ DeleteProfileRow(c)
        \/ DeleteProfileStats(c)
        \/ DeleteProfileFinish(c)
        \/ StartNewRoundCount(c)
        \/ StartNewRoundBulkAdd(c)
        \/ StartNewRoundToArray(c)
        \/ StoreRecordAnswerFirst(c)
        \/ StoreRecordAnswerPut(c)
        \/ ResetProgressDelete(c)
        \/ ResetProgressCount(c)
        \/ ResetProgressBulkAdd(c)
        \/ Retry(c)
        \/ Reject(c)
        \/ Settle(c)

Next ==
    \/ begun < MaxCalls /\ AppCall
    \/ begun < MaxCalls /\ AppSync
    \/ AppStep

Spec == Init /\ [][Next]_vars

\* The same, every call awaited before the next action
Quiet == calls = EmptyBag

NextSeq ==
    \/ Quiet /\ begun < MaxSeqCalls /\ AppCall
    \/ Quiet /\ begun < MaxSeqCalls /\ AppSync
    \/ AppStep

SpecSeq == Init /\ [][NextSeq]_vars

\* weightedRandomSelection on its own: arrays of up to MaxItems items with
\* distinct ids and weights 0..MaxWeight, counts 0..MaxCount
WeightedItems ==
    UNION {{[i \in 1..n |-> [itemId |-> ToString(i), weight |-> Whole(w[i])]] :
               w \in [1..n -> 0..MaxWeight]} : n \in 0..MaxItems}

InitSel ==
    /\ stats = {}
    /\ nextId = 1
    /\ dbProfiles = {}
    /\ nextProfileId = 1
    /\ \E weights \in WeightedItems, count \in 0..MaxCount,
          allowDuplicates \in BOOLEAN :
          calls = SetToBag({CallWeightedRandomSelection(weights, count,
                                                        allowDuplicates)})
    /\ begun = 1
    /\ currentRound = 0
    /\ sessionLetters = <<>>
    /\ currentIndex = 0
    /\ currentScore = 0
    /\ roundComplete = FALSE
    /\ config = [difficulty |-> "auto", letterCase |-> "both", roundSize |-> 15]
    /\ activeProfileId = 0
    /\ profiles = <<>>

NextSel == \E c \in InFlight : WeightedRandomSelectionReturn(c)

SpecSel == InitSel /\ [][NextSel]_vars

\* A round in play: the state once startNewRound has completed for profile 1
\* on a fresh database, then answers submitted without waiting for one
\* another
InitPlay ==
    /\ stats = InitialRows(1, 1)
    /\ nextId = 1 + 2 * NumLetters
    /\ dbProfiles = {1}
    /\ nextProfileId = 2
    /\ calls = EmptyBag
    /\ begun = 0
    /\ currentRound = 1
    /\ sessionLetters \in generateFirstRound(
           [difficulty |-> "auto", letterCase |-> "both", roundSize |-> 15])
    /\ currentIndex = 0
    /\ currentScore = 0
    /\ roundComplete = FALSE
    /\ config = [difficulty |-> "auto", letterCase |-> "both", roundSize |-> 15]
    /\ activeProfileId = 1
    /\ profiles = <<1>>

PlayStep ==
    \E c \in InFlight :
        \/ StoreRecordAnswerFirst(c)
        \/ StoreRecordAnswerPut(c)
        \/ Retry(c)
        \/ Reject(c)
        \/ Settle(c)

NextPlay ==
    \/ begun < MaxPlayCalls /\ \E ok \in BOOLEAN : CallStoreRecordAnswer(ok)
    \/ PlayStep

SpecPlay == InitPlay /\ [][NextPlay]_vars

\* A round in play, each answer submitted once the earlier ones have returned
NextPlaySeq ==
    \/ /\ begun < MaxPlayCalls
       /\ \A c \in InFlight : Settled(c)
       /\ \E ok \in BOOLEAN : CallStoreRecordAnswer(ok)
    \/ PlayStep

SpecPlaySeq == InitPlay /\ [][NextPlaySeq]_vars

\* The profile store on its own, its calls overlapping freely
ProfileCall ==
    \/ CallLoadProfiles
    \/ CallCreateProfile
    \/ \E p \in Profiles : CallSetActiveProfile(p)
    \/ \E p \in Profiles : CallDeleteProfile(p)

ProfileStep ==
    \E c \in InFlight :
        \/ LoadProfilesToArray(c)
        \/ CreateProfileAdd(c)
        \/ PutSetting(c)
        \/ DeleteProfileRow(c)
        \/ DeleteProfileStats(c)
        \/ DeleteProfileFinish(c)
        \/ Reject(c)
        \/ Settle(c)

NextProfiles ==
    \/ begun < MaxProfileCalls /\ ProfileCall
    \/ ProfileStep

SpecProfiles == Init /\ [][NextProfiles]_vars

\* The weight calculations on their own: two items, each without a record
\* or with a record of up to MaxAttempts attempts, attempted within 7 days
\* or longer ago
WeightStat(attempts, right) ==
    [NewStat(1, ALPHABET[1], "uppercase") EXCEPT
        !.id = 1, !.totalAttempts = attempts, !.correctCount = right,
        !.incorrectCount = attempts - right,
        !.successRate = IF attempts = 0 THEN ZeroRate
                        ELSE [num |-> right, den |-> attempts]]

WeightStats ==
    {WeightStat(q[1], q[2]) :
        q \in {x \in (0..MaxAttempts) \X (0..MaxAttempts) : x[2] <= x[1]}}

WeightItems ==
    [found : {{}} \cup {{r} : r \in WeightStats}, old : BOOLEAN]

InitWeight ==
    /\ stats = {}
    /\ nextId = 1
    /\ dbProfiles = {}
    /\ nextProfileId = 1
    /\ \E item1, item2 \in WeightItems, difficulty \in {"easy", "auto", "hard"} :
          calls = SetToBag({CallWeights(<<item1, item2>>, difficulty)})
    /\ begun = 1
    /\ currentRound = 0
    /\ sessionLetters = <<>>
    /\ currentIndex = 0
    /\ currentScore = 0
    /\ roundComplete = FALSE
    /\ config = [difficulty |-> "auto", letterCase |-> "both", roundSize |-> 15]
    /\ activeProfileId = 0
    /\ profiles = <<>>

NextWeight == \E c \in InFlight : WeightsReturn(c)

SpecWeight == InitWeight /\ [][NextWeight]_vars

-----------------------------------------------------------------------------
(* Properties *)

\* the zeroed records of every item of the universe, ids aside
Universe(profileId) ==
    {NewStat(profileId, ALPHABET[i], CaseTypes[j]) :
        i \in 1..NumLetters, j \in 1..2}

Unkeyed(rows) == {[r EXCEPT !.id = NoId] : r \in rows}

\* C1: no lost updates.  When N recordAnswer calls on one
\* (profileId, letter, caseType) are all that has run on a fresh table, in
\* any interleaving of their reads and puts, and all N have completed, the
\* attempts stored for the item (summed over its rows) are exactly N.
NoLostUpdates ==
    \A p \in Profiles, l \in Letters :
        (/\ begun = BagCardinality(calls)
         /\ \A c \in InFlight : /\ c.op = "recordAnswer"
                                /\ c.pc = "resolved"
                                /\ c.profileId = p
                                /\ c.letter = l)
        => TotalAttempts(stats, p, l) = begun

\* C2: every stored record has correctCount + incorrectCount = totalAttempts
\* and no negative counter, in every state reached by initialize,
\* recordAnswer, reset and deleteProfile interleaved freely.
CountsAddUp ==
    \A r \in stats :
        /\ r.correctCount + r.incorrectCount = r.totalAttempts
        /\ r.correctCount >= 0
        /\ r.incorrectCount >= 0
        /\ r.totalAttempts >= 0

\* a record that has counted a right and a wrong answer
CountsAddUpWitness ==
    \E r \in stats : r.correctCount > 0 /\ r.incorrectCount > 0

\* C7: at most one record per (profileId, letter, caseType), in every state
\* reached by initialize, recordAnswer and reset interleaved freely.
OneRecordPerItem ==
    \A r, q \in stats :
        (r.profileId = q.profileId /\ r.letter = q.letter
            /\ r.caseType = q.caseType) => r = q

\* initializeLetterStatistics is all that has run, on a fresh table and for
\* profile p, every run has completed, and exactly one found the profile
\* empty: the runs were in sequence
InitializedInSequence(p) ==
    /\ begun = BagCardinality(calls)
    /\ \A c \in InFlight : /\ c.op = "initialize"
                           /\ c.pc = "resolved"
                           /\ c.profileId = p
    /\ \E c \in InFlight : c.existingStats = 0 /\ CopiesIn(c, calls) = 1

\* C9: initializeLetterStatistics is idempotent.  A call whose count finds a
\* record returns at once and leaves the table as it is; and after the
\* call has run once or several times in sequence on an empty profile the
\* table is the one a single call leaves: the zeroed universe, ids 1..2n.
InitializeIdempotent ==
    [][/\ \A c \in InFlight :
             (/\ c.op = "initialize"
              /\ WhereProfile(stats, c.profileId) # {}
              /\ InitializeCount(c))
             => /\ stats' = stats
                /\ nextId' = nextId
                /\ \E d \in BagToSet(calls') :
                      /\ d.op = "initialize"
                      /\ d.pc = "resolved"
                      /\ d.existingStats =
                            Cardinality(WhereProfile(stats, c.profileId))
       /\ \A p \in Profiles :
             InitializedInSequence(p)'
             => /\ Unkeyed(stats') = Universe(p)
                /\ Cardinality(stats') = 2 * NumLetters
                /\ nextId' = 1 + 2 * NumLetters
      ]_vars

\* two calls in sequence on an empty profile have both completed
InitializeIdempotentWitness ==
    /\ begun = 2
    /\ \E p \in Profiles : InitializedInSequence(p)
    /\ \E c \in InFlight : c.existingStats = 2 * NumLetters

\* C3: each judged answer is applied exactly once.  When round 1 is under
\* way and N store recordAnswer calls, each begun while an item was active,
\* are all that has run since startNewRound, overlapping or not, and all N
\* have completed, then currentIndex is N and each of the first N items of
\* the round has exactly one attempt on record.
AnswersAppliedOnce ==
    LET n == BagCardinality(calls)
    IN  (/\ currentRound = 1
         /\ begun = n + 1
         /\ n <= Len(sessionLetters)
         /\ \A c \in InFlight : /\ c.op = "storeRecordAnswer"
                                /\ c.pc = "resolved"
                                /\ c.letter # NoLetter)
        => /\ currentIndex = n
           /\ \A i \in 1..n :
                 TotalAttempts(stats, activeProfileId, sessionLetters[i]) = 1

\* C4: a store recordAnswer call whose read or put rejected leaves
\* currentIndex, currentScore, roundComplete and sessionLetters as they were
\* when the call began.
FailedAnswerKeepsRound ==
    \A c \in InFlight :
        (c.op = "storeRecordAnswer" /\ c.pc = "rejected")
        => /\ currentIndex = c.round0.currentIndex
           /\ currentScore = c.round0.currentScore
           /\ roundComplete = c.round0.roundComplete
           /\ sessionLetters = c.round0.sessionLetters

\* an answer whose put rejected, after its read had found the record
FailedAnswerKeepsRoundWitness ==
    \E c \in InFlight :
        /\ c.op = "storeRecordAnswer"
        /\ c.pc = "rejected"
        /\ c.stat.totalAttempts > 0
        /\ currentIndex < Len(sessionLetters)
        /\ sessionLetters[currentIndex + 1] = c.letter

\* C5: when an answer for the active item failed and its retry has
\* succeeded, the item's attempts are one more than before the failed call
\* and currentIndex is one more than before the failed call.
RetryRecordsOnce ==
    \A c \in InFlight :
        (/\ c.op = "storeRecordAnswer"
         /\ c.retry
         /\ c.pc = "resolved"
         /\ c.letter # NoLetter)
        => /\ TotalAttempts(stats, c.profileId, c.letter) = c.attempts0 + 1
           /\ currentIndex = c.round0.currentIndex + 1

\* a retry has succeeded
RetryRecordsOnceWitness ==
    \E c \in InFlight :
        /\ c.op = "storeRecordAnswer"
        /\ c.retry
        /\ c.pc = "resolved"
        /\ c.letter # NoLetter

\* C6: a startNewRound call that rejected (the count, the bulkAdd or the
\* toArray failed) leaves currentRound, sessionLetters, currentIndex,
\* currentScore and roundComplete as they were when the call began.
FailedStartKeepsRound ==
    \A c \in InFlight :
        (c.op = "startNewRound" /\ c.pc = "rejected")
        => RoundState = c.round0

\* a start of round 2 that failed in generateAdaptiveRound, with round 1
\* still installed
FailedStartKeepsRoundWitness ==
    \E c \in InFlight :
        /\ c.op = "startNewRound"
        /\ c.pc = "rejected"
        /\ c.nextRound = 2
        /\ c.existingStats > 0
        /\ Len(sessionLetters) > 0

\* C8: once the reset of a profile's statistics has completed, the profile
\* has exactly one record per item of the universe, each with totalAttempts,
\* correctCount, incorrectCount and successRate zero, whatever was recorded
\* before.
ResetLeavesZeroes ==
    \A c \in InFlight :
        (c.op = "resetProgress" /\ c.pc = "resolved" /\ c.profileId # 0)
        => LET rows == WhereProfile(stats, c.profileId)
           IN  /\ Unkeyed(rows) = Universe(c.profileId)
               /\ Cardinality(rows) = 2 * NumLetters

\* a reset has completed for a profile that had answers on record
ResetLeavesZeroesWitness ==
    \E c \in InFlight :
        /\ c.op = "resetProgress"
        /\ c.pc = "resolved"
        /\ c.recorded > 0

\* C10: once startNewRound has got past initializeLetterStatistics for an
\* active profile that had no record, the profile has exactly one zeroed
\* record per letter and case, and the call has not failed.
FirstUseInitializes ==
    \A c \in InFlight :
        (/\ c.op = "startNewRound"
         /\ c.profileId # 0
         /\ c.existingStats = 0
         /\ c.pc \in {"toArray", "resolved"})
        => LET rows == WhereProfile(stats, c.profileId)
           IN  /\ Unkeyed(rows) = Universe(c.profileId)
               /\ Cardinality(rows) = 2 * NumLetters

\* the first round has been started for a profile that had no record
FirstUseInitializesWitness ==
    \E c \in InFlight :
        /\ c.op = "startNewRound"
        /\ c.profileId # 0
        /\ c.existingStats = 0
        /\ c.pc = "resolved"
        /\ currentRound = 1

\* a step of utility call c: an awaited storage operation of c resolves and
\* the call moves on
UtilityStep(c) ==
    /\ c.op \in {"recordAnswer", "initialize", "reset", "generateAdaptiveRound"}
    /\ c.pc \in {"first", "put", "count", "bulkAdd", "delete", "toArray"}
    /\ CopiesIn(c, calls') < CopiesIn(c, calls)

\* C11: profile isolation.  No step of a recordAnswer,
\* initializeLetterStatistics or resetAllStatistics call made for profile P
\* creates, modifies or deletes a record of another profile, and the records
\* generateAdaptiveRound for P has read are all records of P.
ProfileIsolation ==
    /\ [][\A c \in InFlight :
              UtilityStep(c) =>
                  {r \in stats' : r.profileId # c.profileId}
                      = {r \in stats : r.profileId # c.profileId}]_vars
    /\ [](\A c \in InFlight :
              c.op = "generateAdaptiveRound" =>
                  \A r \in c.allStats : r.profileId = c.profileId)

\* an answer has been recorded and a round generated for one profile while
\* the table held records of the other
ProfileIsolationWitness ==
    \E c, d \in InFlight :
        /\ c.op = "generateAdaptiveRound" /\ c.pc = "resolved"
        /\ c.allStats # {}
        /\ d.op = "recordAnswer" /\ d.pc = "resolved"
        /\ d.profileId = c.profileId
        /\ \E r \in stats : r.profileId # c.profileId

\* C12: cascading delete.  When deleteProfile(id) has completed, the
\* recordAnswer calls for id that were in flight by then have completed too,
\* and nothing else has run, the statistics table holds no record with
\* profileId = id.
CascadingDelete ==
    \A d \in InFlight :
        (/\ d.op = "deleteProfile" /\ d.pc = "resolved"
         /\ d.begunAtEnd = begun
         /\ begun = BagCardinality(calls)
         /\ \A c \in InFlight :
               c # d => /\ c.op = "recordAnswer"
                        /\ c.pc = "resolved"
                        /\ c.profileId = d.id)
        => WhereProfile(stats, d.id) = {}

\* a step of startNewRound call c that installs a round: the call moves on
\* and the round state changes
Installs(c) ==
    /\ c.op = "startNewRound"
    /\ ~ UNCHANGED roundVars
    /\ CopiesIn(c, calls') < CopiesIn(c, calls)
    /\ currentRound' = c.nextRound
    /\ currentIndex' = 0

\* letters holds each letter of the alphabet once, in the case(s) cfg allows
IsBootstrapRound(letters, cfg) ==
    /\ Len(letters) = NumLetters
    /\ \A k \in 1..NumLetters :
          Cardinality({i \in 1..Len(letters) :
              toUpperCase(letters[i].character) = ALPHABET[k]}) = 1
    /\ \A i \in 1..Len(letters) :
          /\ letters[i].caseType \in casesToConsider(cfg)
          /\ \E k \in 1..NumLetters :
                letters[i] = MakeLetter(ALPHABET[k], letters[i].caseType)

\* C13: a bootstrap round (the round startNewRound installs as round 1) holds
\* exactly one entry per letter of the alphabet, no letter repeated, whatever
\* config.roundSize is, and each entry's case is the one config.letterCase
\* names (either one for 'both').
BootstrapRoundIsAlphabet ==
    [][\A c \in InFlight :
          (Installs(c) /\ c.nextRound = 1)
              => IsBootstrapRound(sessionLetters', c.config)]_vars

\* round 1 has just been installed under roundSize 1 and a one-case filter
BootstrapRoundIsAlphabetWitness ==
    \E c \in InFlight :
        /\ c.op = "startNewRound" /\ c.pc = "resolved"
        /\ c.nextRound = 1
        /\ c.config.roundSize = 1
        /\ c.config.letterCase = "lowercase"
        /\ currentRound = 1 /\ currentIndex = 0
        /\ Len(sessionLetters) = NumLetters

\* C14: for every profile, the first round started while it is active is a
\* bootstrap round, whatever rounds were played before under other profiles.
\* The round is the profile's first when the call counted no record for it
\* and no record has ever been deleted (every id handed out is still in the
\* table): startNewRound creates the profile's records before any round.
FirstRoundIsBootstrap ==
    [][\A c \in InFlight :
          (/\ Installs(c)
           /\ c.pc \in {"bulkAdd", "toArray"}
           /\ c.existingStats = 0
           /\ nextId' = Cardinality(stats') + 1)
              => IsBootstrapRound(sessionLetters', c.config)]_vars

\* C15: weightedRandomSelection(weights, count, false), on items with
\* distinct ids, returns exactly min(count, |weights|) ids, each one of the
\* input ids and none twice, whatever the draws.
SelectionIsExact ==
    \A c \in InFlight :
        (/\ c.op = "weightedRandomSelection" /\ c.pc = "resolved"
         /\ ~c.allowDuplicates)
        => /\ Len(c.selected) = Min(c.count, Len(c.weights))
           /\ \A i \in 1..Len(c.selected) :
                 \E k \in 1..Len(c.weights) : c.selected[i] = c.weights[k].itemId
           /\ \A i, j \in 1..Len(c.selected) :
                 c.selected[i] = c.selected[j] => i = j

\* a selection asked for more items than there are, one of them of weight
\* 0: all of them are returned
SelectionIsExactWitness ==
    \E c \in InFlight :
        /\ c.op = "weightedRandomSelection" /\ c.pc = "resolved"
        /\ ~c.allowDuplicates
        /\ c.count > Len(c.weights)
        /\ Len(c.selected) = MaxItems
        /\ \E k \in 1..Len(c.weights) :
              c.weights[k].weight.num = 0 /\ c.weights[k].weight.den = 1

\* C16: an adaptive round (the round startNewRound installs from
\* generateAdaptiveRound) holds exactly min(config.roundSize, candidates)
\* letters, the candidates being every letter in both cases for letterCase
\* 'both' and every letter once otherwise, and no (character, caseType)
\* pair twice.
AdaptiveRoundIsSized ==
    [][\A c \in InFlight :
          (Installs(c) /\ c.pc = "toArray")
              => /\ Len(sessionLetters') =
                        Min(c.config.roundSize,
                            IF c.config.letterCase = "both"
                            THEN 2 * NumLetters ELSE NumLetters)
                 /\ \A i, j \in 1..Len(sessionLetters') :
                       sessionLetters'[i] = sessionLetters'[j] => i = j]_vars

\* an adaptive round cut to roundSize 1 has been installed
AdaptiveRoundIsSizedWitness ==
    \E c \in InFlight :
        /\ c.op = "startNewRound" /\ c.pc = "resolved"
        /\ c.nextRound = 2
        /\ c.config.roundSize = 1
        /\ currentRound = 2 /\ currentIndex = 0
        /\ Len(sessionLetters) = 1

\* item is a letter of the given case: its caseType says so and its
\* character is one of that case
HasCase(item, caseType) ==
    /\ item.caseType = caseType
    /\ \E k \in 1..Len(UPPER) :
          item.character = (IF caseType = "uppercase" THEN UPPER[k] ELSE LOWER[k])

\* C17: every round respects the case filter in force when it was started:
\* under letterCase 'uppercase' every item of the installed round is
\* uppercase, under 'lowercase' every item is lowercase, for bootstrap and
\* adaptive rounds alike.
RoundRespectsCaseFilter ==
    [][\A c \in InFlight :
          (Installs(c) /\ c.config.letterCase # "both")
              => \A i \in 1..Len(sessionLetters') :
                    HasCase(sessionLetters'[i], c.config.letterCase)]_vars

\* an adaptive round has been installed under the lowercase filter
RoundRespectsCaseFilterWitness ==
    \E c \in InFlight :
        /\ c.op = "startNewRound" /\ c.pc = "resolved"
        /\ c.nextRound = 2
        /\ c.config.letterCase = "lowercase"
        /\ currentRound = 2 /\ currentIndex = 0
        /\ Len(sessionLetters) > 0
        /\ \A i \in 1..Len(sessionLetters) : HasCase(sessionLetters[i], "lowercase")

\* C18: the round's item list is immutable during play.  A step changes
\* sessionLetters only when it is a startNewRound call installing its round
\* or resetGame (called on its own or at the end of handleResetProgress);
\* no recordAnswer, nextLetter or updateConfig step changes it.
RoundListImmutable ==
    [][sessionLetters' # sessionLetters =>
          \/ \E c \in InFlight : Installs(c)
          \/ resetGame
          \/ \E c \in InFlight :
                /\ c.op = "resetProgress"
                /\ CopiesIn(c, calls') < CopiesIn(c, calls)
                /\ sessionLetters' = <<>>]_vars

\* a round in play, one answer in, holds a lowercase item though the filter
\* has since been set to uppercase
RoundListImmutableWitness ==
    /\ currentRound >= 1
    /\ currentIndex >= 1
    /\ config.letterCase = "uppercase"
    /\ \E i \in 1..Len(sessionLetters) : sessionLetters[i].caseType = "lowercase"

\* C19: in every state of a started round, roundComplete is true exactly
\* when the index has passed the last item (currentIndex =
\* Len(sessionLetters)), whatever recordAnswer and nextLetter calls were
\* made.
CompleteIffPastLast ==
    (currentRound >= 1 /\ Len(sessionLetters) > 0)
        => (roundComplete <=> currentIndex = Len(sessionLetters))

\* C20: complete is terminal for a round.  Once roundComplete is true, no
\* step of a store recordAnswer call and no nextLetter changes currentIndex
\* or currentScore or writes a statistics record.
CompleteIsTerminal ==
    [][(/\ roundComplete
        /\ \/ nextLetter
           \/ \E c \in InFlight :
                 /\ c.op = "storeRecordAnswer"
                 /\ CopiesIn(c, calls') < CopiesIn(c, calls))
          => UNCHANGED <<currentIndex, currentScore, stats>>]_vars

\* the store recordAnswer(true) calls among the calls issued
CorrectCalls ==
    LET issued == {c \in InFlight : c.op = "storeRecordAnswer" /\ c.correct}
    IN  BagCardinality([c \in issued |-> CopiesIn(c, calls)])

\* C21: when the round has reached roundComplete, currentScore is the number
\* of recordAnswer(true) calls issued during the round, also when calls were
\* issued without waiting for the previous one.  Checked where every call
\* issued was issued on an active item, has succeeded and is still on hand.
ScoreCountsCorrectAnswers ==
    (/\ roundComplete
     /\ begun = BagCardinality(calls)
     /\ \A c \in InFlight : /\ c.op = "storeRecordAnswer"
                            /\ c.pc = "resolved"
                            /\ c.letter # NoLetter
                            /\ ~c.retry)
        => currentScore = CorrectCalls

\* C22: starting a new round discards the old one.  A step of a store
\* recordAnswer call that began in an earlier round than the one installed
\* leaves that round's currentIndex, currentScore and roundComplete as they
\* are.
NewRoundDiscardsOld ==
    [][\A c \in InFlight :
          (/\ c.op = "storeRecordAnswer"
           /\ ~c.retry
           /\ c.round0.currentRound >= 1
           /\ c.round0.currentRound < currentRound
           /\ CopiesIn(c, calls') < CopiesIn(c, calls))
              => UNCHANGED <<currentIndex, currentScore, roundComplete>>]_vars

\* C23: no drift of the success rate.  Every stored record has successRate =
\* correctCount / totalAttempts when totalAttempts > 0, and successRate = 0
\* when totalAttempts = 0.
NoRateDrift ==
    \A r \in stats :
        IF r.totalAttempts > 0
        THEN r.successRate.num * r.totalAttempts
                 = r.correctCount * r.successRate.den
        ELSE r.successRate.num = 0

\* a record with a correct and a wrong answer on it
NoRateDriftWitness ==
    \E r \in stats :
        /\ r.totalAttempts = 2
        /\ r.correctCount = 1
        /\ r.successRate.num = 1 /\ r.successRate.den = 2

\* the recordAnswer calls on hand for an item, by outcome
AnswersOn(profileId, letter, correct) ==
    LET issued == {c \in InFlight : /\ c.op = "recordAnswer"
                                   /\ c.profileId = profileId
                                   /\ c.letter = letter
                                   /\ c.correct = correct}
    IN  BagCardinality([c \in issued |-> CopiesIn(c, calls)])

\* every call begun so far is on hand and has succeeded, and none of them
\* deletes records
OnlyAnswersSoFar ==
    /\ begun = BagCardinality(calls)
    /\ \A c \in InFlight :
          /\ c.pc = "resolved"
          /\ c.op \in {"recordAnswer", "initialize", "generateAdaptiveRound"}

\* C24: for an item whose statistics were zeroed or absent, after k
\* recordAnswer(true) and m recordAnswer(false) calls executed one after
\* another in any order, the stored record has totalAttempts = k + m,
\* correctCount = k, incorrectCount = m and successRate = k / (k + m).
SequentialAnswersCount ==
    \A p \in Profiles, l \in Letters :
        LET k == AnswersOn(p, l, TRUE)
            m == AnswersOn(p, l, FALSE)
        IN  (OnlyAnswersSoFar /\ k + m > 0)
            => /\ Cardinality(RowsOf(stats, p, l)) = 1
               /\ \A r \in RowsOf(stats, p, l) :
                     /\ r.totalAttempts = k + m
                     /\ r.correctCount = k
                     /\ r.incorrectCount = m
                     /\ r.successRate.num * (k + m) = k * r.successRate.den

\* a zeroed item has taken a correct and then a wrong answer
SequentialAnswersCountWitness ==
    \E p \in Profiles, l \in Letters :
        /\ OnlyAnswersSoFar
        /\ \E c \in InFlight : c.op = "initialize" /\ c.profileId = p
        /\ AnswersOn(p, l, TRUE) = 1
        /\ AnswersOn(p, l, FALSE) = 1
        /\ \E r \in RowsOf(stats, p, l) :
              /\ r.totalAttempts = 2 /\ r.correctCount = 1
              /\ r.incorrectCount = 1
              /\ r.successRate.num = 1 /\ r.successRate.den = 2


\* a weights call that has returned
Weighed(c) == c.op = "weights" /\ c.pc = "resolved"

\* C25: a record with totalAttempts = 0, and a missing record, has weight
\* exactly 1.0 under every difficulty: the game's calculateWeight returns 1
\* for it, and so does the library's calculateWeight followed by
\* adjustWeightsForDifficulty.
UnseenWeighsOne ==
    \A c \in InFlight : Weighed(c) =>
        /\ \A i \in 1..Len(c.items) :
              (\/ c.items[i].found = {}
               \/ First(c.items[i].found).totalAttempts = 0)
              => c.gameWeights[i] = Frac(1, 1)
        /\ \A k \in 1..Len(Recorded(c.items)) :
              Recorded(c.items)[k].stat.totalAttempts = 0
              => c.itemWeights[k].weight = Frac(1, 1)

\* an easy call weighed a missing record and an untouched record last
\* attempted over 7 days ago, and both paths gave 1
UnseenWeighsOneWitness ==
    \E c \in InFlight :
        /\ Weighed(c) /\ c.difficulty = "easy"
        /\ c.items[1].found = {}
        /\ c.items[2].found = {WeightStat(0, 0)} /\ c.items[2].old
        /\ c.gameWeights = <<Frac(1, 1), Frac(1, 1)>>
        /\ Len(c.itemWeights) = 1 /\ c.itemWeights[1].weight = Frac(1, 1)


\* item i of a weights call has a record with attempts on it
Attempted(c, i) ==
    c.items[i].found # {} /\ First(c.items[i].found).totalAttempts > 0

\* the successRate on the record of item i
RateOf(c, i) == First(c.items[i].found).successRate

\* C26: for a fixed difficulty and a fixed recency, the game's weight of an
\* attempted item is non-increasing in its successRate: s1 <= s2 implies
\* weight(s1) >= weight(s2).
WeightFallsWithSuccess ==
    \A c \in InFlight :
        (/\ Weighed(c)
         /\ Attempted(c, 1) /\ Attempted(c, 2)
         /\ c.items[1].old = c.items[2].old
         /\ Leq(RateOf(c, 1), RateOf(c, 2)))
        => Leq(c.gameWeights[2], c.gameWeights[1])

\* a hard call weighed records at 1/4 and 3/4 success, both older than 7
\* days, and the weaker item got the strictly larger weight
WeightFallsWithSuccessWitness ==
    \E c \in InFlight :
        /\ Weighed(c) /\ c.difficulty = "hard"
        /\ c.items[1] = [found |-> {WeightStat(4, 1)}, old |-> TRUE]
        /\ c.items[2] = [found |-> {WeightStat(4, 3)}, old |-> TRUE]
        /\ ~Leq(c.gameWeights[1], c.gameWeights[2])


\* C27: every weight handed to the sampler, after the difficulty transform,
\* is at least 0.1, for every record and every difficulty: the game's
\* calculateWeight and the weights generateRoundItems builds.
WeightFloor ==
    \A c \in InFlight : Weighed(c) =>
        /\ \A i \in 1..Len(c.gameWeights) :
              Leq(Frac(1, 10), c.gameWeights[i])
        /\ \A k \in 1..Len(c.itemWeights) :
              Leq(Frac(1, 10), c.itemWeights[k].weight)

\* the game's half of C27 on its own
GameWeightFloor ==
    \A c \in InFlight : Weighed(c) =>
        \A i \in 1..Len(c.gameWeights) : Leq(Frac(1, 10), c.gameWeights[i])


\* C28: for every difficulty and every record with totalAttempts > 0, of any
\* successRate and any time since lastAttempt, the computed weight does not
\* exceed 1.0, the weight of an unseen item; in the game's calculateWeight
\* and in the library's.
UnseenWeighsMost ==
    \A c \in InFlight : Weighed(c) =>
        /\ \A i \in 1..Len(c.items) :
              Attempted(c, i) => Leq(c.gameWeights[i], Frac(1, 1))
        /\ \A k \in 1..Len(Recorded(c.items)) :
              Recorded(c.items)[k].stat.totalAttempts > 0
              => Leq(calculateWeightOfItem(Recorded(c.items)[k].stat,
                                           Recorded(c.items)[k].old),
                     Frac(1, 1))


\* w = (1 - successRate) * recencyBoost of item i of a weights call
BaseWeight(c, i) ==
    Times(errorWeight(First(c.items[i].found)), recencyBoost(c.items[i].old))

\* C29: under 'easy', the weight the round generator computes for an
\* attempted item equals max(0.1, 0.3 + 0.7 * w), where
\* w = (1 - successRate) * recencyBoost.
EasyWeightIsFlattened ==
    \A c \in InFlight :
        (Weighed(c) /\ c.difficulty = "easy") =>
            \A i \in 1..Len(c.items) :
                Attempted(c, i) =>
                    c.gameWeights[i] =
                        Greatest(Frac(1, 10),
                                 Plus(Frac(3, 10),
                                      Times(Frac(7, 10), BaseWeight(c, i))))


\* the weight generateAdaptiveRound computes for item i under 'auto'
AutoWeight(c, i) == calculateWeight(c.items[i].found, "auto", c.items[i].old)

\* C30: 'hard' amplifies the bias toward weak items: for two attempted items
\* of the same recency with success rates s1 < s2 < 1, the ratio
\* weight(s1) / weight(s2) under 'hard' is at least the ratio under 'auto',
\* in the weights generateAdaptiveRound computes.
HardAmplifiesBias ==
    \A c \in InFlight :
        (/\ Weighed(c) /\ c.difficulty = "hard"
         /\ Attempted(c, 1) /\ Attempted(c, 2)
         /\ c.items[1].old = c.items[2].old
         /\ ~Leq(RateOf(c, 2), RateOf(c, 1))
         /\ ~Leq(Frac(1, 1), RateOf(c, 2)))
        => Leq(Times(AutoWeight(c, 1), c.gameWeights[2]),
               Times(c.gameWeights[1], AutoWeight(c, 2)))


\* a weightedRandomSelection call that has returned
Selected(c) == c.op = "weightedRandomSelection" /\ c.pc = "resolved"

\* every weight of the array is 0
AllZero(weights) == \A k \in 1..Len(weights) : weights[k].weight.num = 0

\* C31: weightedRandomSelection returns the empty list for an empty
\* candidate list; for a non-empty list whose weights are all 0 and a count
\* >= 1 it still returns min(count, |candidates|) items, and every candidate
\* can be the one drawn first (the uniform fallback).
DegenerateSelection ==
    \A c \in InFlight :
        (Selected(c) /\ ~c.allowDuplicates) =>
            /\ Len(c.weights) = 0 => c.selected = <<>>
            /\ (Len(c.weights) > 0 /\ c.count >= 1 /\ AllZero(c.weights)) =>
                  /\ Len(c.selected) = Min(c.count, Len(c.weights))
                  /\ \A k \in 1..Len(c.weights) :
                        \E sel \in weightedRandomSelection(c.weights, c.count,
                                                           FALSE) :
                            sel[1] = c.weights[k].itemId

\* two of three candidates of weight 0 were asked for, and the last and
\* the second were returned
DegenerateSelectionWitness ==
    \E c \in InFlight :
        /\ Selected(c) /\ ~c.allowDuplicates
        /\ Len(c.weights) = 3 /\ AllZero(c.weights) /\ c.count = 2
        /\ c.selected = <<c.weights[3].itemId, c.weights[2].itemId>>

\* nothing was selected from no candidates
EmptySelectionWitness ==
    \E c \in InFlight :
        Selected(c) /\ Len(c.weights) = 0 /\ c.count = 2 /\ c.selected = <<>>


\* a step of startNewRound call c
RoundStep(c) ==
    c.op = "startNewRound" /\ CopiesIn(c, calls') < CopiesIn(c, calls)

\* a zeroed record of the profile
IsZeroed(r, profileId) ==
    /\ r.profileId = profileId
    /\ r.totalAttempts = 0 /\ r.correctCount = 0 /\ r.incorrectCount = 0
    /\ r.successRate = ZeroRate

\* no step of a startNewRound call changes or deletes an existing record
RoundGenerationKeepsRecords ==
    [][\A c \in InFlight : RoundStep(c) => stats \subseteq stats']_vars

\* C32: round generation is read-only with respect to statistics.  No step
\* of startNewRound changes or deletes an existing record; the only write
\* it makes is seeding zeroed records for a profile that has none.
RoundGenerationReadsOnly ==
    [][\A c \in InFlight :
          RoundStep(c) =>
              /\ stats \subseteq stats'
              /\ stats' # stats =>
                    /\ WhereProfile(stats, c.profileId) = {}
                    /\ \A r \in stats' \ stats : IsZeroed(r, c.profileId)]_vars


\* equally spaced values of Math.random(): the midpoints of total intervals
\* of equal length in [0, 1)
Draws(total) == {[num |-> 2 * k + 1, den |-> 2 * total] : k \in 0..(total - 1)}

\* C33: selection follows the weights.  The first draw selects candidate i
\* with probability weight_i / sum of weights: of sum equally spaced values
\* of Math.random(), exactly weight_i select candidate i; and the item a
\* call returns first is one that some value of Math.random() selects.
SelectionFollowsWeights ==
    \A c \in InFlight :
        (c.op = "weightedRandomSelection" /\ SumWeights(c.weights) > 0) =>
            LET normalized == normalizeWeights(c.weights)
                total == SumWeights(c.weights)
            IN  /\ \A i \in 1..Len(c.weights) :
                      Cardinality({random \in Draws(total) :
                          selectedIndex(normalized, random) = i})
                          = c.weights[i].weight.num
                /\ (c.pc = "resolved" /\ c.count >= 1) =>
                      \E random \in Draws(total) \cup {Whole(0)} :
                          c.selected[1] =
                              c.weights[selectedIndex(normalized, random)].itemId

\* one item was sampled from A of weight 2 and B of weight 1, and B was
\* returned: one value of Math.random() in three selects it
SelectionFollowsWeightsWitness ==
    \E c \in InFlight :
        /\ Selected(c) /\ c.count = 1
        /\ Len(c.weights) = 2
        /\ c.weights[1].weight = Whole(2) /\ c.weights[2].weight = Whole(1)
        /\ c.selected = <<c.weights[2].itemId>>
        /\ Cardinality({random \in Draws(3) :
               selectedIndex(normalizeWeights(c.weights), random) = 2}) = 1


\* the recordAnswer calls of the store that have returned
AnswersReturned ==
    LET resolved == {c \in InFlight :
                        c.op = "storeRecordAnswer" /\ c.pc = "resolved"}
        RECURSIVE Copies(_)
        Copies(cs) == IF cs = {} THEN 0
                      ELSE LET c == CHOOSE x \in cs : TRUE
                           IN  CopiesIn(c, calls) + Copies(cs \ {c})
    IN  Copies(resolved)

\* every call so far is a recordAnswer of the store that is still known to
\* its caller, and none has failed
OnlyStoreAnswers ==
    /\ begun = BagCardinality(calls)
    /\ \A c \in InFlight :
          c.op = "storeRecordAnswer" /\ c.pc # "rejected" /\ ~c.retry

\* C34: round progress.  On a started round of n >= 1 items, with answers
\* submitted one at a time and no write failing, currentIndex is the number
\* of recordAnswer calls that have returned (up to n), and the round is
\* complete exactly when n calls have returned.
RoundProgress ==
    (OnlyStoreAnswers /\ Len(sessionLetters) >= 1) =>
        /\ currentIndex = Min(AnswersReturned, Len(sessionLetters))
        /\ roundComplete <=> AnswersReturned >= Len(sessionLetters)

\* the last answer of the round has returned and the round is complete
RoundProgressWitness ==
    /\ OnlyStoreAnswers
    /\ Len(sessionLetters) >= 2
    /\ AnswersReturned = Len(sessionLetters)
    /\ currentIndex = Len(sessionLetters)
    /\ roundComplete
    /\ \E c \in InFlight : ~c.correct

\* one answer short of the end the round is not complete
RoundProgressEarlier ==
    /\ OnlyStoreAnswers
    /\ AnswersReturned = Len(sessionLetters) - 1
    /\ \E c \in InFlight : c.pc = "put"
    /\ ~roundComplete


\* C35: in every reachable state of the round store, under any interleaving
\* of startNewRound, recordAnswer, nextLetter, resetGame and updateConfig,
\* 0 <= currentScore <= currentIndex <= sessionLetters.length.
ScoreIndexLengthOrdered ==
    /\ 0 <= currentScore
    /\ currentScore <= currentIndex
    /\ currentIndex <= Len(sessionLetters)


\* C36: attempt counters only grow.  For a given (profileId, letter,
\* caseType) the stored totalAttempts never decreases from one state to the
\* next, except by a step of resetAllStatistics or deleteProfile, under any
\* interleaving of recordAnswer calls.
AttemptsOnlyGrow ==
    [][(\A c \in InFlight :
            c.op \in {"reset", "deleteProfile"} =>
                CopiesIn(c, calls') = CopiesIn(c, calls))
       => \A p \in Profiles, l \in Letters :
              TotalAttempts(stats', p, l) >= TotalAttempts(stats, p, l)]_vars


\* C37: reset with an answer in flight.  When resetAllStatistics(p) and one
\* recordAnswer for p, whatever their overlap, have both completed and
\* nothing else has run, profile p has a record for every item of the
\* universe.
ResetReseedsDespiteAnswer ==
    \A c, d \in InFlight :
        (/\ c.op = "reset" /\ c.pc = "resolved"
         /\ d.op = "recordAnswer" /\ d.pc = "resolved"
         /\ d.profileId = c.profileId
         /\ begun = 2 /\ BagCardinality(calls) = 2)
        => \A u \in Universe(c.profileId) :
               \E r \in WhereProfile(stats, c.profileId) :
                   r.letter = u.letter /\ r.caseType = u.caseType


\* C38: in every reachable state of the profile store, after any sequence
\* and interleaving of loadProfiles, createProfile, setActiveProfile and
\* deleteProfile, activeProfileId is null or the id of a profile in the
\* profiles list.
ActiveProfileIsListed ==
    activeProfileId = 0 \/ Contains(profiles, activeProfileId)

\* the same once every call has returned, none of them having failed
ActiveProfileIsListedAtRest ==
    (/\ begun = BagCardinality(calls)
     /\ \A c \in InFlight : c.pc = "resolved")
    => ActiveProfileIsListed


\* call c begins in this step
Begins(c) == CopiesIn(c, calls') > CopiesIn(c, calls) /\ begun' = begun + 1

\* C39: with no active profile, startNewRound and recordAnswer change
\* nothing: the call returns at once, the round state is as it was and no
\* statistics record is created or modified.
NoProfileNoEffect ==
    /\ [](\A c \in InFlight :
             (c.op \in {"startNewRound", "storeRecordAnswer"}
              /\ c.profileId = 0) => c.pc = "resolved")
    /\ [][\A c \in BagToSet(calls') :
             (/\ Begins(c)
              /\ c.op \in {"startNewRound", "storeRecordAnswer"}
              /\ activeProfileId = 0)
             => /\ c.profileId = 0
                /\ UNCHANGED <<roundVars, dbVars>>]_vars

\* an answer was submitted on a round in play after the active profile had
\* been deleted, and the call has returned with the round where it was
NoProfileNoEffectWitness ==
    \E c \in InFlight :
        /\ c.op = "storeRecordAnswer" /\ c.pc = "resolved"
        /\ c.profileId = 0 /\ activeProfileId = 0
        /\ currentRound = 1
        /\ currentIndex = 0 /\ Len(sessionLetters) > 0
        /\ stats = {}

\* a round was asked for with no profile, and none was started
NoProfileNoRoundWitness ==
    \E c \in InFlight :
        /\ c.op = "startNewRound" /\ c.pc = "resolved" /\ c.profileId = 0
        /\ currentRound = 0 /\ sessionLetters = <<>>


\* the round store before any round: what resetGame() leaves
NotStarted ==
    [currentRound |-> 0, sessionLetters |-> <<>>, currentIndex |-> 0,
     currentScore |-> 0, roundComplete |-> FALSE]

\* a step in which a reset-progress call for a profile returns
ResetProgressReturns ==
    \E c \in BagToSet(calls') :
        /\ c.op = "resetProgress" /\ c.pc = "resolved" /\ c.profileId # 0
        /\ CopiesIn(c, calls') > CopiesIn(c, calls)

\* C40: when the reset-progress action (resetAllStatistics for the active
\* profile, then resetGame) completes, the round store is in the not-started
\* state and config is as it was; and a startNewRound called in that state
\* installs round 1 as a bootstrap round of all letters.
ResetProgressRestarts ==
    /\ [][ResetProgressReturns =>
             /\ currentRound' = 0 /\ sessionLetters' = <<>>
             /\ currentIndex' = 0 /\ currentScore' = 0
             /\ roundComplete' = FALSE
             /\ config' = config]_vars
    /\ [][\A c \in InFlight :
             (Installs(c) /\ c.round0 = NotStarted)
             => /\ currentRound' = 1
                /\ IsBootstrapRound(sessionLetters', c.config)]_vars

\* a round was played, progress was reset (the records were seeded a second
\* time), and the next startNewRound has installed round 1 with all letters
ResetProgressRestartsWitness ==
    \E c \in InFlight :
        /\ c.op = "startNewRound" /\ c.pc = "resolved"
        /\ c.round0 = NotStarted
        /\ c.existingStats = 2 * NumLetters
        /\ nextId = 1 + 4 * NumLetters
        /\ currentRound = 1
        /\ Len(sessionLetters) = NumLetters

\* progress was reset with a round in play, and the store is not started
ResetProgressReturnedWitness ==
    \E c \in InFlight :
        /\ c.op = "resetProgress" /\ c.pc = "resolved" /\ c.recorded > 0
        /\ RoundState = NotStarted

====
